---- MODULE Spec2Model ----
(***************************************************************************)
(* Store model of the store directory: the pre-save slug assignment, the   *)
(* read hooks that populate reviews, and the two aggregation reports; and  *)
(* the password-reset flow of the auth controller.                         *)
(* Strings are sequences of one-character strings so that normalisation    *)
(* and the regular-expression match are computed character by character.   *)
(***************************************************************************)
EXTENDS Integers, Sequences, FiniteSets, TLC

VARIABLES stores, reviews, procs, nextId, ops, run, pure, lastOp, res,
          users, reqs, resp, now, uses, mails

\* the state of the store model, and of the password-reset flow
storeVars == <<stores, reviews, procs, nextId, ops, run, pure, lastOp, res>>

authVars == <<users, reqs, resp, now, uses, mails>>

vars == <<storeVars, authVars>>

(***************************************************************************)
(* Bounds of the model.                                                    *)
(***************************************************************************)
MaxId == 3
MaxOps == 4
MaxReviews == 4

Procs == {1, 2}

\* Names submitted by the write-side clients: empty, whitespace only,
\* punctuation only, a plain name, the same name in another letter case,
\* and a name whose base is the plain base followed by a hyphen and a digit.
Names ==
    { <<>>, <<" ">>, <<"!">>, <<"c">>, <<"C">>, <<"c", " ", "2">> }

\* the names an edit may submit
EditNames == { <<" ">>, <<"c">>, <<"C">>, <<"c", " ", "2">> }

ReadNames == { <<"c">> }

TagLists == { <<>>, <<"a">>, <<"b", "a">>, <<"b", "b">> }

Ratings == {4, 5}

(***************************************************************************)
(* Characters.                                                             *)
(***************************************************************************)
DigitChars == <<"0", "1", "2", "3", "4", "5", "6", "7", "8", "9">>

IsDigit(ch) == \E i \in 1..Len(DigitChars) : DigitChars[i] = ch

IsSpace(ch) == ch = " "

\* String.prototype.toLowerCase on one character
LowerChar(ch) ==
    CASE ch = "C" -> "c"
      [] ch = "D" -> "d"
      [] OTHER -> ch

\* \w of a JavaScript regular expression
IsWordChar(ch) == ch \in {"c", "d", "C", "D", "_"} \/ IsDigit(ch)

Lower(s) == [i \in 1..Len(s) |-> LowerChar(s[i])]

RECURSIVE TrimLeft(_)
TrimLeft(s) ==
    IF s # <<>> /\ IsSpace(Head(s)) THEN TrimLeft(Tail(s)) ELSE s

RECURSIVE TrimRight(_)
TrimRight(s) ==
    IF s # <<>> /\ IsSpace(s[Len(s)])
    THEN TrimRight(SubSeq(s, 1, Len(s) - 1))
    ELSE s

\* a schema whose name path has no trim setter
TrimMut(s) == s

\* the schema's trim: true setter (String.prototype.trim)
Trim(s) == TrimRight(TrimLeft(s))

\* the decimal digits of n, as template-literal interpolation prints a number
RECURSIVE Digits(_)
Digits(n) ==
    IF n < 10 THEN <<DigitChars[n + 1]>>
    ELSE Digits(n \div 10) \o <<DigitChars[(n % 10) + 1]>>

\* String.prototype.replace(/[^\w\ ]/gi, ""): keep word characters and spaces
RECURSIVE KeepWordAndSpace(_)
KeepWordAndSpace(s) ==
    IF s = <<>> THEN <<>>
    ELSE IF IsWordChar(Head(s)) \/ IsSpace(Head(s))
         THEN <<Head(s)>> \o KeepWordAndSpace(Tail(s))
         ELSE KeepWordAndSpace(Tail(s))

\* slug(name) of the slugs package: lower case, the separators . = - become
\* spaces, both ends are trimmed, every character that is neither a word
\* character nor a space is dropped, and spaces become hyphens.
SlugOf(name) ==
    LET low == Lower(name)
        sep == [i \in 1..Len(low) |->
                   IF low[i] \in {".", "=", "-"} THEN " " ELSE low[i]]
        trimmed == Trim(sep)
        kept == KeepWordAndSpace(trimmed)
    IN  [i \in 1..Len(kept) |-> IF IsSpace(kept[i]) THEN "-" ELSE kept[i]]

AllDigits(s) == \A i \in 1..Len(s) : IsDigit(s[i])

\* a query for the base slug alone
MatchesSlugRegExMut(s, base) == Lower(s) = Lower(base)

\* new RegExp(`^(${base})((-[0-9]*$)?)$`, "i").test(s)
MatchesSlugRegEx(s, base) ==
    /\ Len(s) >= Len(base)
    /\ Lower(SubSeq(s, 1, Len(base))) = Lower(base)
    /\ \/ Len(s) = Len(base)
       \/ /\ s[Len(base) + 1] = "-"
          /\ AllDigits(SubSeq(s, Len(base) + 2, Len(s)))

(***************************************************************************)
(* Documents and the in-flight saves.                                      *)
(***************************************************************************)
NoStores == [i \in {} |-> i]

Idle ==
    [pc |-> "idle", id |-> 0, isNew |-> FALSE, input |-> <<>>, name |-> <<>>,
     tags |-> <<>>, coordinates |-> <<>>, slug |-> <<>>, n |-> 0,
     changed |-> FALSE, clean |-> FALSE, fam |-> 0, alone |-> FALSE,
     dirty |-> FALSE, rival |-> FALSE]

InFlight == {p \in Procs : procs[p].pc # "idle"}

\* room for one more write, counting the saves already under way
HasRoom == ops + Cardinality(InFlight) < MaxOps

\* a request is served by the lowest handler that is not busy
FreeSlot(p) ==
    /\ procs[p].pc = "idle"
    /\ \A q \in Procs : q < p => procs[q].pc # "idle"

NoRun == [name |-> <<>>, slugs |-> <<>>]

NotPure == [ok |-> FALSE, bases |-> {}]

\* the slug is the base itself or the base followed by a hyphen and digits
InFamily(s, base) ==
    \/ s = base
    \/ /\ Len(s) >= Len(base) + 2
       /\ SubSeq(s, 1, Len(base)) = base
       /\ s[Len(base) + 1] = "-"
       /\ AllDigits(SubSeq(s, Len(base) + 2, Len(s)))

\* the stores whose slug is in the family of the base, whatever the case
FamilyOf(base) ==
    {i \in DOMAIN stores :
        LET s == stores[i].slug
        IN  /\ Len(s) >= Len(base)
            /\ \A k \in 1..Len(base) : LowerChar(s[k]) = LowerChar(base[k])
            /\ \/ Len(s) = Len(base)
               \/ /\ Len(s) >= Len(base) + 2
                  /\ s[Len(base) + 1] = "-"
                  /\ \A k \in (Len(base) + 2)..Len(s) : IsDigit(s[k])}

\* required: "Please enter a store name!" on a String path
RequiredName(name) == name # <<>>

\* a hook that recomputes the slug on every save
IsModifiedNameMut(isNew, name, stored) == TRUE

\* this.isModified("name")
IsModifiedName(isNew, name, stored) == isNew \/ name # stored

\* this.constructor.find({ slug: slugRegEx })
StoresWithSlug(base) ==
    {id \in DOMAIN stores : MatchesSlugRegEx(stores[id].slug, base)}

\* a suffix that counts the matches without adding one
SuffixedSlugMut(base, n) ==
    IF n # 0 THEN base \o <<"-">> \o Digits(n) ELSE base

\* `${this.slug}-${storesWithSlug.length + 1}` when the query found stores
SuffixedSlug(base, n) ==
    IF n # 0 THEN base \o <<"-">> \o Digits(n + 1) ELSE base

Op(op, input, err, changed, second) ==
    [op |-> op, input |-> input, err |-> err, changed |-> changed,
     second |-> second]

\* two creations are rivals when both have run the query before either has
\* written and both were given the same answer for the same base
Rival(q, isNew, base, n) ==
    /\ isNew
    /\ procs[q].pc = "found"
    /\ procs[q].isNew
    /\ ~procs[q].dirty
    /\ procs[q].slug = base
    /\ procs[q].n = n

\* the pre-save hook up to its await: the base slug and the query's answer
PreSaveFind(p, id, isNew, input, name, tags, coordinates, changed) ==
    LET base == SlugOf(name)
        n == Cardinality(StoresWithSlug(base))
        family == FamilyOf(base)
        clean == family = {}
        fam == Cardinality(family)
        alone == family \subseteq {id}
        rival == \E r \in Procs \ {p} : Rival(r, isNew, base, n)
    IN  procs' = [q \in Procs |->
            IF q = p
            THEN [pc |-> "found", id |-> id, isNew |-> isNew, input |-> input,
                  name |-> name, tags |-> tags, coordinates |-> coordinates,
                  slug |-> base, n |-> n,
                  changed |-> changed,
                  clean |-> clean, fam |-> fam, alone |-> alone,
                  dirty |-> FALSE, rival |-> rival]
            ELSE IF Rival(q, isNew, base, n)
            THEN [procs[q] EXCEPT !.rival = TRUE]
            ELSE procs[q]]

\* a longitude and a latitude
SomePoint == <<1, 2>>

\* coordinates: [{ type: Number, required: "You must supply coordinates!" }]:
\* every element there is must be a number; an array path that is not given
\* is the empty array
ValidCoordinates(coordinates) ==
    \A i \in DOMAIN coordinates : coordinates[i] \in Int

\* the 2dsphere index on location: a Point needs a longitude and a latitude,
\* and further elements of the position are not read
GeoKeys(coordinates) == Len(coordinates) >= 2

\* new Store({name, tags, location}).save() up to the hook's await
SaveNewAt(p, input, tags, coordinates) ==
    /\ FreeSlot(p)
    /\ nextId <= MaxId
    /\ HasRoom
    /\ LET name == Trim(input)
       IN  IF ~RequiredName(name) \/ ~ValidCoordinates(coordinates)
           THEN /\ lastOp' = Op("create", input, "ValidationError", TRUE, FALSE)
                /\ UNCHANGED <<stores, procs, nextId>>
           ELSE /\ PreSaveFind(p, nextId, TRUE, input, name, tags,
                               coordinates, TRUE)
                /\ nextId' = nextId + 1
                /\ lastOp' = Op("create", input, "none", TRUE, FALSE)
                /\ UNCHANGED stores
    /\ res' = <<>>
    /\ UNCHANGED <<reviews, ops, run, pure, authVars>>

\* new Store({name, tags, location}).save() with the location of a place
SaveNew(p, input, tags) == SaveNewAt(p, input, tags, SomePoint)

\* a stored document is loaded, its name and tags are set, and it is saved
SaveExisting(p, id, input, tags) ==
    /\ FreeSlot(p)
    /\ id \in DOMAIN stores
    /\ HasRoom
    /\ LET name == Trim(input)
           changed == name # stores[id].name
       IN  IF ~RequiredName(name)
           THEN /\ lastOp' = Op("save", input, "ValidationError", changed, FALSE)
                /\ UNCHANGED <<stores, procs>>
           ELSE IF ~IsModifiedName(FALSE, name, stores[id].name)
           THEN /\ stores' = [stores EXCEPT ![id].tags = tags]
                /\ lastOp' = Op("save", input, "none", changed, FALSE)
                /\ UNCHANGED procs
           ELSE /\ PreSaveFind(p, id, FALSE, input, name, tags,
                               stores[id].coordinates, changed)
                /\ lastOp' = Op("save", input, "none", changed, FALSE)
                /\ UNCHANGED stores
    /\ res' = <<>>
    /\ UNCHANGED <<reviews, nextId, ops, run, pure, authVars>>

\* the other saves under way have seen the collection change
Dirtied(p) ==
    [q \in Procs |->
        IF q = p THEN Idle
        ELSE IF procs[q].pc = "found" THEN [procs[q] EXCEPT !.dirty = TRUE]
        ELSE procs[q]]

\* the hook after its await, next(), and the write of the document
SaveWrite(p) ==
    /\ procs[p].pc = "found"
    /\ LET d == procs[p]
           slug == SuffixedSlug(d.slug, d.n)
           rec == [name |-> d.name, slug |-> slug, tags |-> d.tags,
                   coordinates |-> d.coordinates]
           second == d.rival /\ \E i \in DOMAIN stores : stores[i].slug = slug
       IN  IF ~GeoKeys(d.coordinates)
           THEN /\ procs' = [procs EXCEPT ![p] = Idle]
                /\ lastOp' = Op("write", d.input, "MongoError", d.changed, FALSE)
                /\ UNCHANGED <<stores, ops, run, pure>>
           ELSE IF d.isNew \/ d.id \in DOMAIN stores
           THEN /\ stores' = [i \in DOMAIN stores \cup {d.id} |->
                                 IF i = d.id THEN rec ELSE stores[i]]
                /\ procs' = Dirtied(p)
                /\ ops' = ops + 1
                /\ run' = IF d.isNew /\ ~d.dirty
                          THEN IF run.slugs # <<>> /\ run.name = d.name
                               THEN [run EXCEPT !.slugs = Append(@, slug)]
                               ELSE IF d.clean
                               THEN [name |-> d.name, slugs |-> <<slug>>]
                               ELSE NoRun
                          ELSE NoRun
                /\ pure' = IF d.isNew /\ pure.ok /\ SlugOf(d.name) \notin pure.bases
                           THEN [pure EXCEPT !.bases = @ \cup {SlugOf(d.name)}]
                           ELSE NotPure
                /\ lastOp' = Op("write", d.input, "none", d.changed, second)
           ELSE /\ procs' = [procs EXCEPT ![p] = Idle]
                /\ lastOp' = Op("write", d.input, "none", d.changed, FALSE)
                /\ UNCHANGED <<stores, ops, run, pure>>
    /\ res' = <<>>
    /\ UNCHANGED <<reviews, nextId, authVars>>

\* a stored document is removed
Remove(id) ==
    /\ id \in DOMAIN stores
    /\ HasRoom
    /\ ops' = ops + 1
    /\ stores' = [i \in DOMAIN stores \ {id} |-> stores[i]]
    /\ procs' = Dirtied(0)
    /\ run' = NoRun
    /\ pure' = NotPure
    /\ lastOp' = Op("remove", <<>>, "none", FALSE, FALSE)
    /\ res' = <<>>
    /\ UNCHANGED <<reviews, nextId, authVars>>

(***************************************************************************)
(* The password-reset flow: its documents, requests and responses.         *)
(***************************************************************************)
\* the registered users, by email, and the emails a requester may submit
Users == {"a", "b"}

Emails == Users \cup {"z"}

\* the password a requester submits
Passwords == {"p"}

\* the reset tokens issued, and the hours the clock runs, in a behaviour
MaxTokens == 2

MaxTicks == 2

\* Date.now() + 3600000; // 1 hour from now
OneHour == 3600000

\* user.resetPasswordToken = undefined, user.resetPasswordExpires = undefined
Undefined == 0

\* a request handler that is not serving a request
IdleReq == [pc |-> "idle"]

\* no response sent yet; resp is the last response sent
NoResponse == [op |-> "none"]

\* req.flash(level, text) followed by res.redirect(to) or res.render(to)
Response(op, param, level, text, to, login) ==
    [op |-> op, param |-> param, level |-> level, text |-> text, to |-> to,
     login |-> login]

\* requests are served by the lowest free handler
FreeHandler(h) ==
    /\ reqs[h].pc = "idle"
    /\ \A g \in Procs : g < h => reqs[g].pc # "idle"

AuthInit ==
    /\ users = [u \in Users |->
                   [password |-> "old", resetPasswordToken |-> Undefined,
                    resetPasswordExpires |-> Undefined, issued |-> {}]]
    /\ reqs = [h \in Procs |-> IdleReq]
    /\ resp = NoResponse
    /\ now = 0
    /\ uses = <<>>
    /\ mails = {}

Init ==
    /\ AuthInit
    /\ stores = NoStores
    /\ reviews = {}
    /\ procs = [p \in Procs |-> Idle]
    /\ nextId = 1
    /\ ops = 0
    /\ run = NoRun
    /\ pure = [ok |-> TRUE, bases |-> {}]
    /\ lastOp = Op("init", <<>>, "none", FALSE, FALSE)
    /\ res = <<>>

Next ==
    \/ \E p \in Procs, input \in Names : SaveNew(p, input, <<>>)
    \/ \E p \in Procs, id \in 1..MaxId, input \in EditNames :
           SaveExisting(p, id, input, <<>>)
    \/ \E p \in Procs : SaveWrite(p)
    \/ \E id \in 1..MaxId : Remove(id)

Spec == Init /\ [][Next]_vars

(***************************************************************************)
(* The auth controller: forgot, reset and update.  A handler is one step   *)
(* per database operation it awaits, with the code that follows it.        *)
(***************************************************************************)
\* crypto.randomBytes(20).toString("hex"): a token no request has seen
FreshToken == Len(uses) + 1

\* resetPasswordExpires: { $gt: Date.now() }, compared at or after the time
ExpiresAfterMut(expires, t) == expires >= t

\* resetPasswordExpires: { $gt: Date.now() }
ExpiresAfter(expires, t) == expires > t

\* User.findOne({ resetPasswordToken: token, resetPasswordExpires: { $gt } })
FindByToken(token) ==
    {u \in Users : /\ users[u].resetPasswordToken = token
                   /\ ExpiresAfter(users[u].resetPasswordExpires, now)}

\* forgot, up to await user.save(): the lookup by email, and for a user
\* the new token and its expiry on the document in memory
ForgotFind(h, email) ==
    /\ FreeHandler(h)
    /\ IF email \notin Users
           THEN /\ resp' = Response("forgot", Undefined, "success",
                                     "A password reset email has been sent to this email.",
                                     "/login", "none")
                /\ UNCHANGED <<reqs, uses>>
           ELSE /\ FreshToken <= MaxTokens
                /\ reqs' = [reqs EXCEPT ![h] =
                       [pc |-> "forgotSave", user |-> email, token |-> FreshToken,
                        expires |-> now + OneHour, password |-> "none",
                        at |-> now]]
                /\ uses' = Append(uses, 0)
                /\ UNCHANGED resp
    /\ UNCHANGED <<users, now, mails, storeVars>>

\* forgot: await user.save() writes the token and the expiry
ForgotSave(h) ==
    /\ reqs[h].pc = "forgotSave"
    /\ users' = [users EXCEPT ![reqs[h].user] =
           [@ EXCEPT !.resetPasswordToken = reqs[h].token,
                     !.resetPasswordExpires = reqs[h].expires,
                     !.issued = @ \cup {reqs[h].token}]]
    /\ reqs' = [reqs EXCEPT ![h].pc = "forgotSend"]
    /\ UNCHANGED <<resp, now, uses, mails, storeVars>>

\* forgot: await mail.send(...), then the flash and the redirect
ForgotSend(h) ==
    /\ reqs[h].pc = "forgotSend"
    /\ mails' = mails \cup {[to |-> reqs[h].user, token |-> reqs[h].token]}
    /\ resp' = Response("forgot", Undefined, "success",
                         "You have been emailed a password reset link.",
                         "/login", "none")
    /\ reqs' = [reqs EXCEPT ![h] = IdleReq]
    /\ UNCHANGED <<users, now, uses, storeVars>>

\* reset: the lookup by token, then the error or the form
Reset(h, token) ==
    /\ FreeHandler(h)
    /\ resp' = IF FindByToken(token) = {}
                   THEN Response("reset", token, "error",
                                 "Password reset is invalid or has expired.",
                                 "/login", "none")
                   ELSE Response("reset", token, "none", "", "reset", "none")
    /\ UNCHANGED <<users, reqs, now, uses, mails, storeVars>>

\* update, up to await user.save(): the lookup by token, then the error or
\* the new password on the document in memory
UpdateFind(h, token, password) ==
    /\ FreeHandler(h)
    /\ IF FindByToken(token) = {}
           THEN /\ resp' = Response("update", token, "error",
                                     "Password reset is invalid or has expired.",
                                     "/login", "none")
                /\ UNCHANGED reqs
           ELSE /\ reqs' = [reqs EXCEPT ![h] =
                       [pc |-> "updateSave",
                        user |-> CHOOSE u \in FindByToken(token) : TRUE,
                        token |-> token, expires |-> Undefined,
                        password |-> password, at |-> now]]
                /\ UNCHANGED resp
    /\ UNCHANGED <<users, now, uses, mails, storeVars>>

\* update: await user.save() writes the password and clears the token and
\* the expiry; then req.login, the flash and the redirect
UpdateSave(h) ==
    /\ reqs[h].pc = "updateSave"
    /\ users' = [users EXCEPT ![reqs[h].user] =
           [@ EXCEPT !.password = reqs[h].password,
                     !.resetPasswordToken = Undefined,
                     !.resetPasswordExpires = Undefined]]
    /\ uses' = [uses EXCEPT ![reqs[h].token] = @ + 1]
    /\ resp' = Response("update", reqs[h].token, "success",
                         "Nice! Your password has been reset!!!!", "/",
                         reqs[h].user)
    /\ reqs' = [reqs EXCEPT ![h] = IdleReq]
    /\ UNCHANGED <<now, mails, storeVars>>

\* an hour passes
Tick ==
    /\ now < MaxTicks * OneHour
    /\ now' = now + OneHour
    /\ UNCHANGED <<users, reqs, resp, uses, mails, storeVars>>

NextAuth ==
    \/ \E h \in Procs, email \in Emails : ForgotFind(h, email)
    \/ \E h \in Procs : ForgotSave(h)
    \/ \E h \in Procs : ForgotSend(h)
    \/ \E h \in Procs, token \in 1..MaxTokens : Reset(h, token)
    \/ \E h \in Procs, token \in 1..MaxTokens, password \in Passwords :
           UpdateFind(h, token, password)
    \/ \E h \in Procs : UpdateSave(h)
    \/ Tick

SpecAuth == Init /\ [][NextAuth]_vars

(***************************************************************************)
(* Reviews, the read hooks and the aggregation reports.                    *)
(***************************************************************************)
Range(f) == {f[i] : i \in DOMAIN f}

Min(a, b) == IF a <= b THEN a ELSE b

RECURSIVE SeqOfIds(_)
SeqOfIds(S) ==
    IF S = {} THEN <<>>
    ELSE LET m == CHOOSE x \in S : \A y \in S : x <= y
         IN  <<m>> \o SeqOfIds(S \ {m})

RECURSIVE Perms(_)
Perms(S) ==
    IF S = {} THEN {<<>>}
    ELSE UNION {{<<x>> \o q : q \in Perms(S \ {x})} : x \in S}

\* a review of a store is submitted; the k-th review of that store with
\* that rating
AddReview(store, rating) ==
    /\ Cardinality(reviews) < MaxReviews
    /\ reviews' = reviews \cup
           {[store |-> store, rating |-> rating,
             k |-> 1 + Cardinality({r \in reviews :
                                      r.store = store /\ r.rating = rating})]}
    /\ lastOp' = Op("addReview", <<>>, "none", FALSE, FALSE)
    /\ res' = <<>>
    /\ UNCHANGED <<stores, procs, nextId, ops, run, pure, authVars>>

\* the virtual: reviews whose store property is the store's _id
VirtualReviews(id) == {r \in reviews : r.store = id}

\* a schema that populates on find only
PreHooksMut == {"find"}

\* storeSchema.pre("find", autopopulate); storeSchema.pre("findOne", autopopulate)
PreHooks == {"find", "findOne"}

\* the document a query of kind op returns for a stored id
QueryDoc(op, id) ==
    [id |-> id, name |-> stores[id].name, slug |-> stores[id].slug,
     tags |-> stores[id].tags, populated |-> op \in PreHooks,
     reviews |-> IF op \in PreHooks THEN VirtualReviews(id) ELSE {}]

\* Store.find(): every store
Find ==
    /\ res' = [i \in 1..Cardinality(DOMAIN stores) |->
                  QueryDoc("find", SeqOfIds(DOMAIN stores)[i])]
    /\ lastOp' = Op("find", <<>>, "none", FALSE, FALSE)
    /\ UNCHANGED <<stores, reviews, procs, nextId, ops, run, pure, authVars>>

\* Store.findOne({ slug }): the first store with the slug, or none
FindOne(slug) ==
    /\ LET hit == {i \in DOMAIN stores : stores[i].slug = slug}
       IN  res' = IF hit = {} THEN <<>>
                  ELSE <<QueryDoc("findOne", SeqOfIds(hit)[1])>>
    /\ lastOp' = Op("findOne", slug, "none", FALSE, FALSE)
    /\ UNCHANGED <<stores, reviews, procs, nextId, ops, run, pure, authVars>>

\* the order of strings on the tags of the model
TagOrder == <<"a", "b">>

StrLess(x, y) ==
    \E i, j \in 1..Len(TagOrder) : TagOrder[i] = x /\ TagOrder[j] = y /\ i < j

\* { $unwind: "$tags" }: one row for each position of each store's tags
Unwound ==
    UNION {{<<id, i>> : i \in DOMAIN stores[id].tags} : id \in DOMAIN stores}

UnwoundTag(u) == stores[u[1]].tags[u[2]]

\* { $group: { _id: "$tags", count: { $sum: 1 } } }
Grouped ==
    {[_id |-> t, count |-> Cardinality({u \in Unwound : UnwoundTag(u) = t})] :
        t \in {UnwoundTag(u) : u \in Unwound}}

\* a sort on the count alone
TagSortBeforeMut(a, b) == a.count > b.count

\* { $sort: { count: -1, _id: 1 } }
TagSortBefore(a, b) ==
    \/ a.count > b.count
    \/ a.count = b.count /\ StrLess(a._id, b._id)

\* the orders the $sort may return: no row stands before one it must follow
SortedTags(S) ==
    {q \in Perms(S) :
        \A i, j \in 1..Len(q) : i < j => ~TagSortBefore(q[j], q[i])}

\* Store.getTagsList()
GetTagsList ==
    /\ res' \in SortedTags(Grouped)
    /\ lastOp' = Op("getTagsList", <<>>, "none", FALSE, FALSE)
    /\ UNCHANGED <<stores, reviews, procs, nextId, ops, run, pure, authVars>>

RECURSIVE SumRatings(_)
SumRatings(S) ==
    IF S = {} THEN 0
    ELSE LET r == CHOOSE x \in S : TRUE
         IN  r.rating + SumRatings(S \ {r})

\* { $lookup: { from: "reviews", localField: "_id", foreignField: "store" } }
Lookup(id) == {r \in reviews : r.store = id}

\* a match on "reviews.0"
MatchStageMut(id) == Cardinality(Lookup(id)) > 0

\* { $match: { "reviews.1": { $exists: true } } }: the array has an index 1
MatchStage(id) == Cardinality(Lookup(id)) > 1

\* { $avg: "$reviews.rating" }, kept as the fraction sum / count
Avg(S) == [num |-> SumRatings(S), den |-> Cardinality(S)]

\* the $project stage (the photo is not part of the model)
Projected ==
    {[id |-> id, name |-> stores[id].name, slug |-> stores[id].slug,
      reviews |-> Lookup(id), averageRating |-> Avg(Lookup(id))] :
        id \in {i \in DOMAIN stores : MatchStage(i)}}

\* a sort by averageRating ascending
TopSortBeforeMut(a, b) ==
    a.averageRating.num * b.averageRating.den
        < b.averageRating.num * a.averageRating.den

\* { $sort: { averageRating: -1 } }
TopSortBefore(a, b) ==
    a.averageRating.num * b.averageRating.den
        > b.averageRating.num * a.averageRating.den

\* the orders the $sort may return: a row that none must precede, then an
\* order of the rest; rows of equal average come in any order
RECURSIVE SortedTop(_)
SortedTop(S) ==
    IF S = {} THEN {<<>>}
    ELSE UNION {{<<x>> \o q : q \in SortedTop(S \ {x})} :
                   x \in {y \in S : \A z \in S : ~TopSortBefore(z, y)}}

\* { $limit: 10 }
Limit == 10

\* Store.getTopStores(...args): the function declares no parameter, so the
\* arguments of a call are not read
GetTopStoresArgs(args) ==
    /\ \E q \in SortedTop(Projected) :
           res' = SubSeq(q, 1, Min(Len(q), Limit))
    /\ lastOp' = Op("getTopStores", args, "none", FALSE, FALSE)
    /\ UNCHANGED <<stores, reviews, procs, nextId, ops, run, pure, authVars>>

\* Store.getTopStores(); rows of equal average come in any order
GetTopStores == GetTopStoresArgs(<<>>)

\* the slugs asked for: those of the family of c and one that no store has
ReadSlugs == {<<"c">>, <<"c", "-", "2">>, <<"d">>}

NextRead ==
    \/ \E input \in ReadNames : SaveNew(1, input, <<>>)
    \/ SaveWrite(1)
    \/ \E id \in 1..MaxId : Remove(id)
    \/ \E store \in 1..MaxId, rating \in Ratings : AddReview(store, rating)
    \/ Find
    \/ \E slug \in ReadSlugs : FindOne(slug)
    \/ GetTopStores

SpecRead == Init /\ [][NextRead]_vars

(***************************************************************************)
(* The top-stores report over a collection larger than its limit: stores   *)
(* named c created one after another, each with two reviews, but for at    *)
(* most one store that has a single review rated 5.                        *)
(***************************************************************************)
TopStores == 12

\* the ratings of a review run from 1 to 5, so two of them sum to 2..10
TopSum(i, shift) == 2 + ((i + shift) % 9)

TopReviews(i, shift, single) ==
    LET lo == TopSum(i, shift) \div 2
        hi == TopSum(i, shift) - lo
    IN  IF i = single
        THEN {[store |-> i, rating |-> 5, k |-> 1]}
        ELSE {[store |-> i, rating |-> lo, k |-> 1],
              [store |-> i, rating |-> hi, k |-> IF lo = hi THEN 2 ELSE 1]}

InitTop ==
    \E n \in {TopStores - 1, TopStores}, shift \in 0..8, single \in 0..TopStores :
        /\ stores = [i \in 1..n |->
                        [name |-> <<"c">>, slug |-> SuffixedSlug(<<"c">>, i - 1),
                         tags |-> <<>>, coordinates |-> SomePoint]]
        /\ reviews = UNION {TopReviews(i, shift, single) : i \in 1..n}
        /\ procs = [p \in Procs |-> Idle]
        /\ nextId = n + 1
        /\ ops = n
        /\ run = NoRun
        /\ pure = NotPure
        /\ lastOp = Op("init", <<>>, "none", FALSE, FALSE)
        /\ res = <<>>
        /\ AuthInit

\* the limits a caller may ask for: none, or 3
TopArgs == {<<>>, <<3>>}

NextTop == \E args \in TopArgs : GetTopStoresArgs(args)

SpecTop == InitTop /\ [][NextTop]_vars

\* the coordinates a form may send: none, one number, a pair, a triple
CoordInputs == {<<>>, <<1>>, <<1, 2>>, <<1, 2, 3>>}

NextGeo ==
    \/ \E p \in Procs, coordinates \in CoordInputs :
           SaveNewAt(p, <<"c">>, <<>>, coordinates)
    \/ \E p \in Procs : SaveWrite(p)
    \/ \E id \in 1..MaxId : Remove(id)

SpecGeo == Init /\ [][NextGeo]_vars

NextTags ==
    \/ \E input \in ReadNames, tags \in TagLists : SaveNew(1, input, tags)
    \/ \E id \in 1..MaxId, input \in ReadNames, tags \in TagLists :
           SaveExisting(1, id, input, tags)
    \/ SaveWrite(1)
    \/ \E id \in 1..MaxId : Remove(id)
    \/ GetTagsList

SpecTags == Init /\ [][NextTags]_vars

(***************************************************************************)
(* Properties of the slug assignment.                                      *)
(***************************************************************************)
Blank(s) == \A i \in 1..Len(s) : IsSpace(s[i])

HyphenDigits(s) == s # <<>> /\ s[1] = "-" /\ AllDigits(Tail(s))

\* the i-th slug of a family: the base, then base-2, base-3, ...
FamilySlug(base, i) == IF i = 1 THEN base ELSE base \o <<"-">> \o Digits(i)

\* C1: no two persisted stores hold the same slug.
C1_UniqueSlugs ==
    \A i, j \in DOMAIN stores : i # j => stores[i].slug # stores[j].slug

\* C2: when two concurrent creations computed the same slug, the write of
\* the second one fails with a uniqueness violation and persists nothing.
C2_SecondWriterFails ==
    (lastOp.op = "write" /\ lastOp.second) => lastOp.err = "DuplicateSlugRace"

\* C3: stores of one name created one after another, each save complete
\* before the next, from a state with no store in the family of the base,
\* get the slugs base, base-2, base-3, ... in creation order.
C3_SequentialSuffixes ==
    \A i \in 1..Len(run.slugs) :
        run.slugs[i] = FamilySlug(SlugOf(run.name), i)

C3_Witness ==
    /\ Len(run.slugs) = 3
    /\ run.name = <<"c">>
    /\ \E i \in DOMAIN stores : stores[i].slug = <<"c", "-", "3">>

\* C4: while every store was created from a name whose normalized base
\* differs from all the others, every store's slug is its own base and the
\* slugs are pairwise distinct.
C4_DistinctBasesKeepBase ==
    pure.ok =>
        /\ \A i \in DOMAIN stores : stores[i].slug = SlugOf(stores[i].name)
        /\ \A i, j \in DOMAIN stores :
               i # j => stores[i].slug # stores[j].slug

\* C5: a save of a persisted store that does not modify its name changes no
\* stored slug, whatever the other stores are.
C5_ResaveKeepsSlug ==
    [][(lastOp'.op \in {"save", "write"} /\ ~lastOp'.changed)
          => /\ DOMAIN stores' = DOMAIN stores
             /\ \A i \in DOMAIN stores : stores'[i].slug = stores[i].slug]_vars

C5_Witness ==
    /\ lastOp.op = "save"
    /\ ~lastOp.changed
    /\ lastOp.err = "none"
    /\ \E i \in DOMAIN stores :
           /\ stores[i].name = Trim(lastOp.input)
           /\ stores[i].slug = <<"c", "-", "2">>
    /\ Cardinality(DOMAIN stores) >= 2

\* C6: a creation whose name is empty or only whitespace fails with a
\* validation error and neither persists nor starts to persist anything.
C6_BlankNameRejected ==
    [][(lastOp'.op = "create" /\ Blank(lastOp'.input))
          => /\ lastOp'.err = "ValidationError"
             /\ stores' = stores
             /\ procs' = procs]_vars

C6_Witness ==
    /\ lastOp.op = "create"
    /\ lastOp.input = <<" ">>
    /\ lastOp.err = "ValidationError"
    /\ DOMAIN stores # {}

\* C7: a creation whose non-blank name normalizes to the empty base is
\* answered with a validation error, and no persisted slug is empty or made
\* only of a hyphen and digits.
C7_EmptyBaseRejected ==
    /\ (/\ lastOp.op = "create"
        /\ ~Blank(lastOp.input)
        /\ SlugOf(lastOp.input) = <<>>) => lastOp.err = "ValidationError"
    /\ \A i \in DOMAIN stores :
           stores[i].slug # <<>> /\ ~HyphenDigits(stores[i].slug)

(***************************************************************************)
(* Properties of the reads and of the reports.                             *)
(***************************************************************************)
\* C8: every store a find or a findOne returns carries, populated, exactly
\* the reviews whose store reference is the store's id.
C8_ReadsPopulateReviews ==
    lastOp.op \in {"find", "findOne"} =>
        \A k \in 1..Len(res) :
            /\ res[k].populated
            /\ res[k].reviews = {r \in reviews : r.store = res[k].id}

C8_Witness ==
    /\ lastOp.op = "findOne"
    /\ Len(res) = 1
    /\ Cardinality(res[1].reviews) = 2
    /\ \E r \in reviews : r.store # res[1].id

\* the occurrences of tag t over all the stores
RECURSIVE Occurrences(_, _)
Occurrences(ids, t) ==
    IF ids = {} THEN 0
    ELSE LET id == CHOOSE x \in ids : TRUE
         IN  Cardinality({i \in DOMAIN stores[id].tags :
                             stores[id].tags[i] = t})
             + Occurrences(ids \ {id}, t)

\* C9: the tag report has exactly one entry for each tag that occurs, its
\* count is the number of occurrences of the tag over all the stores, and
\* the entries come by count descending, then by tag ascending.
C9_TagReport ==
    lastOp.op = "getTagsList" =>
        LET used == UNION {Range(stores[id].tags) : id \in DOMAIN stores}
        IN  /\ Len(res) = Cardinality(used)
            /\ {res[k]._id : k \in 1..Len(res)} = used
            /\ \A k \in 1..Len(res) :
                   res[k].count = Occurrences(DOMAIN stores, res[k]._id)
            /\ \A k, l \in 1..Len(res) :
                   k < l => \/ res[k].count > res[l].count
                            \/ /\ res[k].count = res[l].count
                               /\ StrLess(res[k]._id, res[l]._id)

C9_Witness ==
    /\ lastOp.op = "getTagsList"
    /\ res = <<[_id |-> "a", count |-> 2], [_id |-> "b", count |-> 2]>>
    /\ \E id \in DOMAIN stores : stores[id].tags = <<"b", "b">>

\* C10: every row of the top-stores report is a store that more than one
\* review references, with exactly those reviews and their mean rating.
C10_TopStoresThreshold ==
    lastOp.op = "getTopStores" =>
        \A k \in 1..Len(res) :
            LET mine == {r \in reviews : r.store = res[k].id}
            IN  /\ res[k].id \in DOMAIN stores
                /\ Cardinality(mine) > 1
                /\ res[k].reviews = mine
                /\ res[k].averageRating.den > 0
                /\ res[k].averageRating.num * Cardinality(mine)
                       = SumRatings(mine) * res[k].averageRating.den

C10_Witness ==
    /\ lastOp.op = "getTopStores"
    /\ Len(res) = 1
    /\ res[1].averageRating = [num |-> 9, den |-> 2]
    /\ \E id \in DOMAIN stores :
           Cardinality({r \in reviews : r.store = id}) = 1

Qualifying == {id \in DOMAIN stores : Cardinality({r \in reviews : r.store = id}) > 1}

\* the mean rating of store a is strictly higher than that of store b
HigherMean(a, b) ==
    LET ra == {r \in reviews : r.store = a}
        rb == {r \in reviews : r.store = b}
    IN  SumRatings(ra) * Cardinality(rb) > SumRatings(rb) * Cardinality(ra)

\* the rows come by mean rating descending and no qualifying store that is
\* left out has a strictly higher mean than a store of the report
TopOrdered ==
    /\ \A k, l \in 1..Len(res) : k < l => ~HigherMean(res[l].id, res[k].id)
    /\ \A k, l \in 1..Len(res) : k # l => res[k].id # res[l].id
    /\ \A k \in 1..Len(res) : res[k].id \in Qualifying
    /\ \A id \in Qualifying \ {res[k].id : k \in 1..Len(res)} :
           \A k \in 1..Len(res) : ~HigherMean(id, res[k].id)

\* C11 as stated: the report has at most as many rows as the caller asks
\* for (10 when no limit is given), ordered by mean rating descending, and
\* they are the highest-averaged qualifying stores.
C11_AtMostLimitAsked ==
    lastOp.op = "getTopStores" =>
        /\ Len(res) <= (IF lastOp.input = <<>> THEN 10 ELSE lastOp.input[1])
        /\ TopOrdered

\* C11 as amended: the report has at most 10 rows whatever limit the caller
\* asks for, ordered by mean rating descending, and they are the
\* highest-averaged qualifying stores.
C11_AtMostTen ==
    lastOp.op = "getTopStores" =>
        /\ Len(res) <= 10
        /\ TopOrdered

C11_Witness ==
    /\ lastOp.op = "getTopStores"
    /\ Len(res) = 10
    /\ Cardinality(Qualifying) = 12
    /\ \E id \in Qualifying \ {res[k].id : k \in 1..Len(res)} :
           ~HigherMean(res[10].id, id)

\* C12: every persisted store has exactly two coordinates, and a creation
\* whose coordinates are missing, empty or of another length fails
\* validation: it never reaches the pre-save hook and is never persisted.
C12_TwoCoordinates ==
    /\ \A id \in DOMAIN stores : Len(stores[id].coordinates) = 2
    /\ \A p \in Procs :
           procs[p].pc = "found" => Len(procs[p].coordinates) = 2

\* the save of handler p writes its document in this step
Writes(p) ==
    /\ procs[p].pc = "found"
    /\ procs'[p].pc = "idle"
    /\ procs[p].id \in DOMAIN stores'
    /\ lastOp'.op = "write"
    /\ lastOp'.err = "none"
    /\ ops' = ops + 1

\* two creations under way, both with the answer of their query, neither
\* of which has seen a write since
BothQueried(p, q) ==
    /\ p # q
    /\ procs[p].pc = "found" /\ procs[q].pc = "found"
    /\ procs[p].isNew /\ procs[q].isNew
    /\ ~procs[p].dirty /\ ~procs[q].dirty
    /\ procs[p].slug = procs[q].slug

\* C13: two creations of the same base that both ran the query before
\* either wrote hold the same number N of matches, and each writes the base
\* when N = 0 and base-(N+1) otherwise.
C13_RivalsComputeSameSlug ==
    [][/\ \A p, q \in Procs : BothQueried(p, q) => procs[p].n = procs[q].n
       /\ \A p \in Procs :
              (Writes(p) /\ procs[p].isNew /\ procs[p].rival)
                  => stores'[procs[p].id].slug =
                         IF procs[p].n = 0 THEN procs[p].slug
                         ELSE procs[p].slug \o <<"-">> \o Digits(procs[p].n + 1)]_vars

C13_Witness ==
    /\ lastOp.op = "write"
    /\ lastOp.second
    /\ \E i, j \in DOMAIN stores :
           /\ i # j
           /\ stores[i].slug = <<"c", "-", "2">>
           /\ stores[j].slug = <<"c", "-", "2">>
    /\ \E i \in DOMAIN stores : stores[i].slug = <<"c">>

\* C14: a save that sets or changes the name, whose query ran when N >= 1
\* stores had a slug in the family of the base, writes the slug base-(N+1),
\* whatever suffixes those stores hold.
C14_CountBasedSuffix ==
    [][\A p \in Procs :
           (Writes(p) /\ procs[p].fam >= 1)
               => stores'[procs[p].id].slug =
                      procs[p].slug \o <<"-">> \o Digits(procs[p].fam + 1)]_vars

\* after a deletion left a gap, the new store holds the slug of another
C14_Witness ==
    /\ lastOp.op = "write"
    /\ ~lastOp.second
    /\ nextId = 4
    /\ DOMAIN stores = {2, 3}
    /\ stores[2].slug = <<"c", "-", "2">>
    /\ stores[3].slug = <<"c", "-", "2">>
    /\ stores[2].name = <<"c">>
    /\ stores[3].name = <<"c">>

\* C15: an edit of the name of a persisted store, made when no other store
\* has a slug in the family of the new base, leaves the store with the new
\* base as its slug.
C15_EditAloneKeepsBase ==
    [][\A p \in Procs :
           (Writes(p) /\ ~procs[p].isNew /\ procs[p].alone /\ ~procs[p].dirty)
               => stores'[procs[p].id].slug = SlugOf(procs[p].name)]_vars

\* C16: each reset token authorises at most one password change, in every
\* interleaving of update requests that carry it; once it has been used,
\* no user holds it and a lookup with it finds no user.
C16_TokenUsedOnce ==
    \A t \in 1..Len(uses) :
        /\ uses[t] <= 1
        /\ uses[t] >= 1 =>
               /\ \A u \in Users : users[u].resetPasswordToken # t
               /\ FindByToken(t) = {}

\* the users who hold token t with an expiry strictly after the present
Holders(t) ==
    {u \in Users : /\ users[u].resetPasswordToken = t
                   /\ users[u].resetPasswordExpires > now}

\* handler h looks a token up for update in this step and goes on
UpdateAccepted(h) == reqs[h].pc = "idle" /\ reqs'[h].pc = "updateSave"

\* an update request is turned away in this step
UpdateRejected ==
    /\ reqs' = reqs
    /\ resp' # resp
    /\ resp'.op = "update"

\* C17: update goes on to change the password only if, at its lookup, a
\* user holds the token of the request with an expiry strictly greater than
\* the present, and it is that user whose password it changes and whom it
\* logs in; otherwise no user is modified, nobody is logged in and the
\* response is an error flash with a redirect to /login.  The expiry that
\* forgot writes is its issue time plus 3600000 ms, and a token that forgot
\* has since replaced is held by no user and finds none.
C17_UpdateNeedsLiveToken ==
    [][/\ \A h \in Procs :
              UpdateAccepted(h) => Holders(reqs'[h].token) = {reqs'[h].user}
       /\ UpdateRejected =>
              /\ Holders(resp'.param) = {}
              /\ users' = users
              /\ resp'.level = "error"
              /\ resp'.to = "/login"
              /\ resp'.login = "none"
       /\ \A u \in Users :
              (users'[u].password # users[u].password
                   \/ (resp' # resp /\ resp'.login = u))
                  => \E h \in Procs :
                         /\ reqs[h].pc = "updateSave"
                         /\ reqs'[h].pc = "idle"
                         /\ reqs[h].user = u
                         /\ users'[u].password = reqs[h].password
                         /\ resp'.login = u
       /\ \A u \in Users :
              users'[u].resetPasswordToken \notin
                      {Undefined, users[u].resetPasswordToken}
                  => \E h \in Procs :
                         /\ reqs[h].pc = "forgotSave"
                         /\ reqs[h].user = u
                         /\ users'[u].resetPasswordExpires =
                                reqs[h].at + 3600000
       /\ \A u \in Users : \A t \in users'[u].issued :
              t # users'[u].resetPasswordToken => FindByToken(t)' = {}]_vars

\* a password was changed with a token, and after the hour a request with
\* a token was turned away while a user still held one
C17_Witness ==
    /\ resp.op = "update"
    /\ resp.level = "error"
    /\ now >= 3600000
    /\ \E u \in Users : users[u].resetPasswordToken = resp.param
    /\ \E u \in Users : users[u].password # "old"
    /\ \E u \in Users : Cardinality(users[u].issued) = 2

\* forgot answers in this step a request for an email of no user
ForgotUnknown ==
    /\ reqs' = reqs
    /\ resp' # resp
    /\ resp'.op = "forgot"

\* C18: every response of forgot has the same redirect target, flash level
\* and flash text, whether or not the email belongs to a user, so a
\* response of forgot that follows another is equal to it; for an email of
\* no user, no user is modified and no mail is sent.
C18_ForgotSameResponse ==
    [][/\ (resp.op = "forgot" /\ resp'.op = "forgot") =>
              /\ resp'.to = resp.to
              /\ resp'.level = resp.level
              /\ resp'.text = resp.text
       /\ ForgotUnknown => (users' = users /\ mails' = mails)]_vars

====
